---------------------------- MODULE Spec2Model ----------------------------
(***************************************************************************)
(* The JNI handle cache of exonum-java-binding (utils/jni_cache.rs):       *)
(* 21 static Option slots filled once by cache_methods under the           *)
(* parking_lot Once INIT, the load hook JNI_OnLoad, and the accessors      *)
(* guarded by check_cache_initialized.                                     *)
(***************************************************************************)
EXTENDS Integers, Sequences, FiniteSets, TLC

(* Number of native threads that call into the module. *)
NumThreads == 2

Threads == 1..NumThreads

INVALID_JNI_VERSION == 0
JNI_VERSION_1_8 == 65544

SERVICE_RUNTIME_ADAPTER_CLASS == "com/exonum/binding/core/runtime/ServiceRuntimeAdapter"

(* Option<T>: None is the empty sequence, Some(h) the one-element sequence. *)
None == << >>
Some(h) == << h >>
IsSome(o) == Len(o) = 1

(* As M, with the statics of initiateAddingService and                      *)
(* initiateResumingService taking each other's method id.                  *)
M_crossed(slot, class, name, sig) ==
  [slot |-> CASE slot = "RUNTIME_ADAPTER_INITIATE_ADDING_SERVICE" -> "RUNTIME_ADAPTER_INITIATE_RESUMING_SERICE"
              [] slot = "RUNTIME_ADAPTER_INITIATE_RESUMING_SERICE" -> "RUNTIME_ADAPTER_INITIATE_ADDING_SERVICE"
              [] OTHER -> slot,
   kind |-> "method", desc |-> << class, name, sig >>]

M(slot, class, name, sig) ==
  [slot |-> slot, kind |-> "method", desc |-> << class, name, sig >>]
C(slot, class) ==
  [slot |-> slot, kind |-> "class", desc |-> << class >>]

(* The assignments of cache_methods, in program order. *)
CacheOrder == <<
  M("OBJECT_GET_CLASS", "java/lang/Object", "getClass", "()Ljava/lang/Class;"),
  M("CLASS_GET_NAME", "java/lang/Class", "getName", "()Ljava/lang/String;"),
  M("THROWABLE_GET_MESSAGE", "java/lang/Throwable", "getMessage", "()Ljava/lang/String;"),
  M("THROWABLE_GET_CAUSE", "java/lang/Throwable", "getCause", "()Ljava/lang/Throwable;"),
  M("EXECUTION_EXCEPTION_GET_ERROR_CODE",
    "com/exonum/binding/core/service/ExecutionException", "getErrorCode", "()B"),
  M("RUNTIME_ADAPTER_INITIALIZE", SERVICE_RUNTIME_ADAPTER_CLASS, "initialize", "(J)V"),
  M("RUNTIME_ADAPTER_DEPLOY_ARTIFACT", SERVICE_RUNTIME_ADAPTER_CLASS, "deployArtifact", "([B[B)V"),
  M("RUNTIME_ADAPTER_IS_ARTIFACT_DEPLOYED", SERVICE_RUNTIME_ADAPTER_CLASS, "isArtifactDeployed", "([B)Z"),
  M("RUNTIME_ADAPTER_INITIATE_ADDING_SERVICE", SERVICE_RUNTIME_ADAPTER_CLASS,
    "initiateAddingService", "(J[B[B)V"),
  M("RUNTIME_ADAPTER_INITIATE_RESUMING_SERICE", SERVICE_RUNTIME_ADAPTER_CLASS,
    "initiateResumingService", "(J[B[B)V"),
  M("RUNTIME_ADAPTER_UPDATE_SERVICE_STATUS", SERVICE_RUNTIME_ADAPTER_CLASS,
    "updateServiceStatus", "([B[B)V"),
  M("RUNTIME_ADAPTER_EXECUTE_TX", SERVICE_RUNTIME_ADAPTER_CLASS,
    "executeTransaction", "(ILjava/lang/String;I[BJI[B[B)V"),
  M("RUNTIME_ADAPTER_BEFORE_TRANSACTIONS", SERVICE_RUNTIME_ADAPTER_CLASS, "beforeTransactions", "(IJ)V"),
  M("RUNTIME_ADAPTER_AFTER_TRANSACTIONS", SERVICE_RUNTIME_ADAPTER_CLASS, "afterTransactions", "(IJ)V"),
  M("RUNTIME_ADAPTER_AFTER_COMMIT", SERVICE_RUNTIME_ADAPTER_CLASS, "afterCommit", "(JIJ)V"),
  M("RUNTIME_ADAPTER_SHUTDOWN", SERVICE_RUNTIME_ADAPTER_CLASS, "shutdown", "()V"),
  C("JAVA_LANG_ERROR", "java/lang/Error"),
  C("JAVA_LANG_RUNTIME_EXCEPTION", "java/lang/RuntimeException"),
  C("JAVA_LANG_ILLEGAL_ARGUMENT_EXCEPTION", "java/lang/IllegalArgumentException"),
  C("EXECUTION_EXCEPTION", "com/exonum/binding/core/service/ExecutionException"),
  C("UNEXPECTED_EXECUTION_EXCEPTION",
    "com/exonum/binding/core/runtime/UnexpectedExecutionException") >>

NumSlots == Len(CacheOrder)

(* The 21 statics: 16 Option<JMethodID> and 5 Option<GlobalRef>. *)
MethodSlots == { CacheOrder[i].slot : i \in { j \in 1..NumSlots : CacheOrder[j].kind = "method" } }
ClassSlots == { CacheOrder[i].slot : i \in { j \in 1..NumSlots : CacheOrder[j].kind = "class" } }
Slots == MethodSlots \cup ClassSlots

Descriptors == { CacheOrder[i].desc : i \in 1..NumSlots }

(* The public accessors: the static each one unwraps. *)
AccessorSlot ==
  [ runtime_adapter_initialize_id |-> "RUNTIME_ADAPTER_INITIALIZE",
    runtime_adapter_deploy_artifact_id |-> "RUNTIME_ADAPTER_DEPLOY_ARTIFACT",
    runtime_adapter_is_artifact_deployed_id |-> "RUNTIME_ADAPTER_IS_ARTIFACT_DEPLOYED",
    runtime_adapter_initiate_adding_service_id |-> "RUNTIME_ADAPTER_INITIATE_ADDING_SERVICE",
    runtime_adapter_initiate_resuming_service_id |-> "RUNTIME_ADAPTER_INITIATE_RESUMING_SERICE",
    runtime_adapter_update_service_status_id |-> "RUNTIME_ADAPTER_UPDATE_SERVICE_STATUS",
    runtime_adapter_execute_tx_id |-> "RUNTIME_ADAPTER_EXECUTE_TX",
    runtime_adapter_before_transactions_id |-> "RUNTIME_ADAPTER_BEFORE_TRANSACTIONS",
    runtime_adapter_after_transactions_id |-> "RUNTIME_ADAPTER_AFTER_TRANSACTIONS",
    runtime_adapter_after_commit_id |-> "RUNTIME_ADAPTER_AFTER_COMMIT",
    runtime_adapter_shutdown_id |-> "RUNTIME_ADAPTER_SHUTDOWN",
    object_get_class_id |-> "OBJECT_GET_CLASS",
    class_get_name_id |-> "CLASS_GET_NAME",
    throwable_get_message_id |-> "THROWABLE_GET_MESSAGE",
    throwable_get_cause_id |-> "THROWABLE_GET_CAUSE",
    execution_exception_get_error_code_id |-> "EXECUTION_EXCEPTION_GET_ERROR_CODE",
    classes_refs_java_lang_error |-> "JAVA_LANG_ERROR",
    classes_refs_java_lang_runtime_exception |-> "JAVA_LANG_RUNTIME_EXCEPTION",
    classes_refs_java_lang_illegal_argument_exception |-> "JAVA_LANG_ILLEGAL_ARGUMENT_EXCEPTION",
    classes_refs_execution_exception |-> "EXECUTION_EXCEPTION",
    classes_refs_unexpected_execution_exception |-> "UNEXPECTED_EXECUTION_EXCEPTION" ]

Accessors == DOMAIN AccessorSlot

VARIABLES
  INIT,     \* the Once: "New", "InProgress", "Poisoned" or "Done"
  slots,    \* the 21 statics, each an Option
  pc,       \* per thread: "idle", "call_once", "caching", "unwound"
  via,      \* per thread: the entry point it is executing
  idx,      \* per thread inside cache_methods: the next assignment
  jvm,      \* the host runtime's answer to each descriptor, once asked
  lookups,  \* per static: resolution calls issued to the host runtime
  entered,  \* number of times the closure of call_once was started
  alive,    \* FALSE once the process was aborted
  out       \* the outcome of the call the last step completed, if any

vars == << INIT, slots, pc, via, idx, jvm, lookups, entered, alive, out >>

(***************************************************************************)
(* The outcome of a completed call: the operation, the accessor called,    *)
(* the state of the Once its last step observed, whether the accessor's    *)
(* static was populated then, whether the call ran cache_methods, whether  *)
(* it panicked, whether the panic left JNI_OnLoad, and the value returned. *)
(***************************************************************************)
Outcome(op, key, guard, filled, ran, panic, escaped, handle, status) ==
  [op |-> op, key |-> key, guard |-> guard, filled |-> filled, ran |-> ran,
   panic |-> panic, escaped |-> escaped, handle |-> handle, status |-> status]

NoOut == Outcome("none", "", "New", FALSE, FALSE, FALSE, FALSE, None, -1)

Init ==
  /\ INIT = "New"
  /\ slots = [s \in Slots |-> None]
  /\ pc = [t \in Threads |-> "idle"]
  /\ via = [t \in Threads |-> "none"]
  /\ idx = [t \in Threads |-> 0]
  /\ jvm = [d \in Descriptors |-> "unasked"]
  /\ lookups = [s \in Slots |-> 0]
  /\ entered = 0
  /\ alive = TRUE
  /\ out = NoOut


(***************************************************************************)
(* The host runtime.  A descriptor's answer is fixed the first time it is  *)
(* asked: "ok", "absent" (get_method_id / find_class returns Err) or, for  *)
(* a class, "noref" (find_class succeeds, new_global_ref returns Err).     *)
(***************************************************************************)
HostAnswers(e) ==
  IF jvm[e.desc] # "unasked" THEN { jvm[e.desc] }
  ELSE IF e.kind = "method" THEN { "ok", "absent" }
  ELSE { "ok", "absent", "noref" }

(* As get_method_id, with a failed lookup mapped to None (.ok()) and no panic. *)
get_method_id_lenient(e, ans) ==
  IF ans = "ok" THEN [panic |-> FALSE, value |-> Some(e.desc)]
  ELSE [panic |-> FALSE, value |-> None]

(* get_method_id: Some(id) of the descriptor, or a panic when not found. *)
get_method_id(e, ans) ==
  IF ans = "ok" THEN [panic |-> FALSE, value |-> Some(e.desc)]
  ELSE [panic |-> TRUE, value |-> None]

(* As get_class, with a failed new_global_ref mapped to None and no panic. *)
get_class_lenient(e, ans) ==
  IF ans = "ok" THEN [panic |-> FALSE, value |-> Some(e.desc)]
  ELSE IF ans = "noref" THEN [panic |-> FALSE, value |-> None]
  ELSE [panic |-> TRUE, value |-> None]

(* get_class: Some(global ref), or a panic when find_class or new_global_ref fails. *)
get_class(e, ans) ==
  IF ans = "ok" THEN [panic |-> FALSE, value |-> Some(e.desc)]
  ELSE [panic |-> TRUE, value |-> None]

Resolve(e, ans) ==
  IF e.kind = "method" THEN get_method_id(e, ans) ELSE get_class(e, ans)

(* As OnceDecision, without the lock: a caller that finds the Once in       *)
(* progress runs the closure too.                                          *)
OnceDecision_unlocked(state) ==
  CASE state = "Done" -> "return"
    [] state = "Poisoned" -> "panic"
    [] OTHER -> "run"

(* As OnceDecision, with a caller that finds the Once in progress          *)
(* returning at once instead of waiting.                                   *)
OnceDecision_nowait(state) ==
  CASE state = "Done" -> "return"
    [] state = "Poisoned" -> "panic"
    [] state = "InProgress" -> "return"
    [] OTHER -> "run"

(* As OnceDecision, with the closure run again on every call (no fast path). *)
OnceDecision_rerun(state) ==
  CASE state = "Poisoned" -> "panic"
    [] state = "InProgress" -> "wait"
    [] OTHER -> "run"

(* As OnceDecision, with a poisoned Once retried (call_once_force). *)
OnceDecision_force(state) ==
  CASE state = "Done" -> "return"
    [] state = "InProgress" -> "wait"
    [] OTHER -> "run"

(***************************************************************************)
(* parking_lot::Once::call_once on the observed state: return at once when *)
(* done, panic when poisoned, block while another thread holds the lock,   *)
(* otherwise take the lock and run the closure.                            *)
(***************************************************************************)
OnceDecision(state) ==
  CASE state = "Done" -> "return"
    [] state = "Poisoned" -> "panic"
    [] state = "InProgress" -> "wait"
    [] OTHER -> "run"

(* As OnceAfterPanic, with the Once unlocked back to new by a panic. *)
OnceAfterPanic_new == "New"

(* The state the Once is left in when the closure panics (PanicGuard) and  *)
(* when it returns.                                                        *)
OnceAfterPanic == "Poisoned"
OnceAfterReturn == "Done"

(* As check_cache_initialized, passing as soon as initialization started. *)
check_cache_initialized_started == INIT # "New"

(* check_cache_initialized: TRUE when it returns, FALSE when it panics. *)
check_cache_initialized == INIT = "Done"

(* As OnLoadStatus, with the version returned whatever catch_unwind caught. *)
OnLoadStatus_always(panicked) == JNI_VERSION_1_8

(* JNI_OnLoad's value from the result of catch_unwind. *)
OnLoadStatus(panicked) ==
  IF panicked THEN INVALID_JNI_VERSION ELSE JNI_VERSION_1_8

(* As SlotWrite, with the assignment of the last static left out. *)
SlotWrite_skip(slot, value) ==
  IF slot = "UNEXPECTED_EXECUTION_EXCEPTION" THEN slots
  ELSE [slots EXCEPT ![slot] = value]

(* The assignment of a resolved value to its static. *)
SlotWrite(slot, value) == [slots EXCEPT ![slot] = value]

(* An accessor: the guard check, then the unwrap of its static. *)
AccessorResult(a) ==
  IF ~check_cache_initialized THEN [panic |-> TRUE, handle |-> None]
  ELSE IF ~IsSome(slots[AccessorSlot[a]]) THEN [panic |-> TRUE, handle |-> None]
  ELSE [panic |-> FALSE, handle |-> slots[AccessorSlot[a]]]

(* The end of a thread's init_cache call: to its caller, or through the    *)
(* catch_unwind of JNI_OnLoad to the host runtime.                         *)
Finish(t, panicked) ==
  /\ pc' = [pc EXCEPT ![t] = "idle"]
  /\ via' = [via EXCEPT ![t] = "none"]
  /\ idx' = [idx EXCEPT ![t] = 0]
  /\ out' = IF via[t] = "JNI_OnLoad"
            THEN Outcome("JNI_OnLoad", "", INIT, FALSE, pc[t] = "caching",
                         FALSE, FALSE, None, OnLoadStatus(panicked))
            ELSE Outcome("init_cache", "", INIT, FALSE, pc[t] = "caching",
                         panicked, FALSE, None, -1)

(* A thread calls init_cache and reaches INIT.call_once. *)
init_cache(t) ==
  /\ alive /\ pc[t] = "idle"
  /\ pc' = [pc EXCEPT ![t] = "call_once"]
  /\ via' = [via EXCEPT ![t] = "init_cache"]
  /\ out' = NoOut
  /\ UNCHANGED << INIT, slots, idx, jvm, lookups, entered, alive >>

(***************************************************************************)
(* The host runtime calls JNI_OnLoad on a thread.  When get_env returns Ok *)
(* the thread goes on to init_cache inside catch_unwind.  When it returns  *)
(* Err, expect panics outside catch_unwind and the panic leaves an         *)
(* extern "system" function: the build either aborts the process or        *)
(* unwinds into the host runtime's frames.                                 *)
(***************************************************************************)
JNI_OnLoad(t) ==
  /\ alive /\ pc[t] = "idle"
  /\ \E envOk \in BOOLEAN :
       \/ /\ envOk
          /\ pc' = [pc EXCEPT ![t] = "call_once"]
          /\ via' = [via EXCEPT ![t] = "JNI_OnLoad"]
          /\ out' = NoOut
          /\ UNCHANGED << INIT, slots, idx, jvm, lookups, entered, alive >>
       \/ /\ ~envOk
          /\ out' = Outcome("JNI_OnLoad", "", INIT, FALSE, FALSE, TRUE, TRUE, None, -1)
          /\ \E aborts \in BOOLEAN :
               /\ alive' = ~aborts
               /\ pc' = IF aborts THEN pc ELSE [pc EXCEPT ![t] = "unwound"]
          /\ UNCHANGED << INIT, slots, via, idx, jvm, lookups, entered >>

(* INIT.call_once: the thread acts on the state it observes; while the     *)
(* state is InProgress it stays parked.                                    *)
call_once(t) ==
  /\ alive /\ pc[t] = "call_once"
  /\ LET d == OnceDecision(INIT) IN
     \/ /\ d = "return"
        /\ UNCHANGED << INIT, slots, jvm, lookups, entered, alive >>
        /\ Finish(t, FALSE)
     \/ /\ d = "panic"
        /\ UNCHANGED << INIT, slots, jvm, lookups, entered, alive >>
        /\ Finish(t, TRUE)
     \/ /\ d = "run"
        /\ INIT' = "InProgress"
        /\ entered' = entered + 1
        /\ pc' = [pc EXCEPT ![t] = "caching"]
        /\ idx' = [idx EXCEPT ![t] = 1]
        /\ out' = NoOut
        /\ UNCHANGED << slots, via, jvm, lookups, alive >>

(***************************************************************************)
(* cache_methods, one assignment at a time: the lookup, then the write of  *)
(* the static, or the panic that poisons the Once and ends the call.       *)
(* After the last assignment the closure returns, the Once becomes done    *)
(* and the call ends.                                                      *)
(***************************************************************************)
cache_methods(t) ==
  /\ alive /\ pc[t] = "caching"
  /\ \/ /\ idx[t] <= NumSlots
        /\ LET e == CacheOrder[idx[t]] IN
           \E ans \in HostAnswers(e) :
             LET r == Resolve(e, ans) IN
             /\ jvm' = [jvm EXCEPT ![e.desc] = ans]
             /\ lookups' = [lookups EXCEPT ![e.slot] = @ + 1]
             /\ \/ /\ ~r.panic
                   /\ slots' = SlotWrite(e.slot, r.value)
                   /\ idx' = [idx EXCEPT ![t] = @ + 1]
                   /\ out' = NoOut
                   /\ UNCHANGED << INIT, pc, via, entered, alive >>
                \/ /\ r.panic
                   /\ INIT' = OnceAfterPanic
                   /\ UNCHANGED << slots, entered, alive >>
                   /\ Finish(t, TRUE)
     \/ /\ idx[t] = NumSlots + 1
        /\ INIT' = OnceAfterReturn
        /\ UNCHANGED << slots, jvm, lookups, entered, alive >>
        /\ Finish(t, FALSE)

(* A thread calls an accessor. *)
Accessor(t, a) ==
  /\ alive /\ pc[t] = "idle"
  /\ LET r == AccessorResult(a) IN
     out' = Outcome("accessor", a, INIT, IsSome(slots[AccessorSlot[a]]), FALSE,
                    r.panic, FALSE, r.handle, -1)
  /\ UNCHANGED << INIT, slots, pc, via, idx, jvm, lookups, entered, alive >>

Next ==
  \E t \in Threads :
    \/ init_cache(t)
    \/ JNI_OnLoad(t)
    \/ call_once(t)
    \/ cache_methods(t)
    \/ \E a \in Accessors : Accessor(t, a)

Spec == Init /\ [][Next]_vars

(***************************************************************************)
(* Fair scheduling: a thread inside INIT.call_once keeps running.  The     *)
(* holder of the lock goes on with cache_methods, whose lookups always     *)
(* answer, and a parked thread is woken when the Once is unlocked          *)
(* (parking_lot unparks every waiter).  Whether and when init_cache,       *)
(* JNI_OnLoad and the accessors are called is up to the callers.           *)
(***************************************************************************)
Fairness == \A t \in Threads : WF_vars(call_once(t)) /\ WF_vars(cache_methods(t))
SpecFair == Init /\ [][Next]_vars /\ Fairness

(***************************************************************************)
(* The initialization against a host runtime whose answers are fixed       *)
(* before the module is loaded: at most MaxMissing descriptors are         *)
(* unresolvable (the method or class is absent or, for a class, its global *)
(* reference cannot be created), all others resolve.                       *)
(***************************************************************************)
MaxMissing == 2

RECURSIVE MissingSets(_)
MissingSets(n) ==
  IF n = 0 THEN { {} }
  ELSE MissingSets(n - 1) \cup
       { S \cup { d } : S \in MissingSets(n - 1), d \in Descriptors }

(* The host runtime in which the descriptors of S are unresolvable: a      *)
(* method is absent, a class of R has no global reference, another class   *)
(* of S is absent.                                                         *)
HostWith(S, R) ==
  [d \in Descriptors |->
     IF d \notin S THEN "ok"
     ELSE IF Len(d) = 1 /\ d \in R THEN "noref" ELSE "absent"]

InitOrder ==
  /\ INIT = "New"
  /\ slots = [s \in Slots |-> None]
  /\ pc = [t \in Threads |-> "idle"]
  /\ via = [t \in Threads |-> "none"]
  /\ idx = [t \in Threads |-> 0]
  /\ \E S \in MissingSets(MaxMissing) :
       \E R \in SUBSET { d \in S : Len(d) = 1 } :
         jvm = HostWith(S, R)
  /\ lookups = [s \in Slots |-> 0]
  /\ entered = 0
  /\ alive = TRUE
  /\ out = NoOut

(* The thread on which the host runtime loads the module. *)
Loader == CHOOSE t \in Threads : TRUE

(* The calls of the loading thread alone: who runs cache_methods does not  *)
(* change the order of its lookups.                                        *)
NextOrder ==
  \/ init_cache(Loader)
  \/ JNI_OnLoad(Loader)
  \/ call_once(Loader)
  \/ cache_methods(Loader)

SpecOrder == InitOrder /\ [][NextOrder]_vars


(***************************************************************************)
(* Properties                                                              *)
(***************************************************************************)
Caching == { t \in Threads : pc[t] = "caching" }
AllPopulated == \A s \in Slots : IsSome(slots[s])
(* No lookup issued so far has failed. *)
AllResolved == \A d \in Descriptors : jvm[d] \in { "unasked", "ok" }
Failed == ~AllResolved
(* The last step was a call of init_cache, direct or through JNI_OnLoad,   *)
(* that completed normally.                                                *)
InitReturned ==
  \/ out.op = "init_cache" /\ ~out.panic
  \/ out.op = "JNI_OnLoad" /\ ~out.escaped /\ out.status = JNI_VERSION_1_8

(* C1: with every descriptor resolvable, however the callers of init_cache *)
(* interleave, exactly one thread runs cache_methods, each of the 21       *)
(* descriptors is looked up at most once and exactly once by the time a    *)
(* call returns, and from the first return on the table is fully           *)
(* populated: an accessor that returns a handle reads a full table.        *)
C1_ExactlyOneInitializer ==
  AllResolved =>
    /\ NumSlots = 21
    /\ entered <= 1
    /\ Cardinality(Caching) <= 1
    /\ \A s \in Slots : lookups[s] <= 1
    /\ InitReturned =>
         /\ entered = 1
         /\ \A s \in Slots : lookups[s] = 1
         /\ AllPopulated
    /\ (out.op = "accessor" /\ ~out.panic) => AllPopulated

(* Two callers raced: one call has just returned normally while another    *)
(* thread is still inside its own call, and every descriptor was looked up *)
(* once.                                                                   *)
C1_Witness ==
  /\ InitReturned /\ AllResolved
  /\ \E t \in Threads : pc[t] = "call_once"
  /\ \A s \in Slots : lookups[s] = 1

(* C2: whenever INIT is done, each of the 16 method-id statics and the 5   *)
(* class-reference statics is Some, so an accessor whose guard check       *)
(* passed never fails in unwrap.                                           *)
C2_DoneImpliesPopulated ==
  /\ Cardinality(MethodSlots) = 16 /\ Cardinality(ClassSlots) = 5
  /\ INIT = "Done" =>
       /\ AllPopulated
       /\ \A a \in Accessors : ~AccessorResult(a).panic
  /\ (out.op = "accessor" /\ out.guard = "Done") => (~out.panic /\ IsSome(out.handle))

(* An accessor was called with the guard done and returned a handle. *)
C2_Witness ==
  /\ out.op = "accessor" /\ out.guard = "Done"
  /\ ~out.panic /\ IsSome(out.handle)

(* C3: an accessor called while INIT is not done (new, in progress or      *)
(* poisoned) panics and returns no handle, also when its own static is     *)
(* already written.                                                        *)
C3_AccessorFailsFast ==
  /\ INIT # "Done" => \A a \in Accessors : AccessorResult(a) = [panic |-> TRUE, handle |-> None]
  /\ (out.op = "accessor" /\ out.guard # "Done") => (out.panic /\ out.handle = None)

(* An accessor was called while cache_methods was running and its static   *)
(* was already written: it panicked.                                       *)
C3_Witness ==
  /\ out.op = "accessor" /\ out.guard = "InProgress"
  /\ out.filled /\ out.panic

(* C4: once INIT is done, no step (in particular no further call of        *)
(* init_cache, which then returns normally without running the closure)    *)
(* issues a lookup or changes a static or the Once, so every accessor      *)
(* returns after the step what it returned before it.                      *)
C4_Idempotent ==
  /\ [][ INIT = "Done" =>
           /\ INIT' = "Done"
           /\ slots' = slots
           /\ lookups' = lookups
           /\ entered' = entered
           /\ \A a \in Accessors : AccessorResult(a)' = AccessorResult(a) ]_vars
  /\ []( (out.op \in { "init_cache", "JNI_OnLoad" } /\ ~out.escaped /\ out.guard = "Done")
           => (InitReturned /\ ~out.ran) )

(* A call of init_cache that found the Once done has returned normally     *)
(* without running the closure.                                            *)
C4_Witness ==
  /\ out.op = "init_cache" /\ out.guard = "Done"
  /\ ~out.panic /\ ~out.ran
  /\ AllPopulated /\ \A s \in Slots : lookups[s] = 1

(* C5: after a successful initialization every accessor returns Some       *)
(* handle, and the handle an accessor returns never changes from one step  *)
(* to the next, so any two calls, by any threads, return the same value.   *)
C5_AccessorsStable ==
  /\ []( INIT = "Done" =>
           \A a \in Accessors :
             /\ ~AccessorResult(a).panic
             /\ IsSome(AccessorResult(a).handle) )
  /\ []( (out.op = "accessor" /\ out.guard = "Done") =>
           /\ ~out.panic /\ IsSome(out.handle)
           /\ out.handle = AccessorResult(out.key).handle )
  /\ [][ INIT = "Done" =>
           \A a \in Accessors : AccessorResult(a)' = AccessorResult(a) ]_vars

(* After a successful initialization the accessor of a class reference     *)
(* returned a handle, the one a call in this state returns too.            *)
C5_Witness ==
  /\ INIT = "Done"
  /\ out.op = "accessor" /\ out.key = "classes_refs_execution_exception"
  /\ ~out.panic /\ IsSome(out.handle)
  /\ out.handle = AccessorResult("classes_refs_execution_exception").handle

(* C6: once a lookup has failed (a method or a class is absent, or the     *)
(* global reference cannot be created), the Once is poisoned, never done,  *)
(* no call of init_cache completes normally, and every accessor panics,    *)
(* those whose static was written before the failure included.             *)
C6_FailureIsFinal ==
  Failed =>
    /\ INIT = "Poisoned"
    /\ Caching = {}
    /\ ~InitReturned
    /\ \A a \in Accessors : AccessorResult(a).panic
    /\ out.op = "accessor" => (out.panic /\ out.handle = None)

(* After a failed initialization an accessor whose static had been written *)
(* before the failure was called, and panicked.                            *)
C6_Witness ==
  /\ Failed /\ INIT = "Poisoned"
  /\ out.op = "accessor" /\ out.filled /\ out.panic

(* C7: a JNI_OnLoad that obtained its JNIEnv returns JNI_VERSION_1_8       *)
(* exactly when the initialization completed with every descriptor         *)
(* resolved, and then every accessor succeeds; otherwise, some lookup      *)
(* having failed, it returns INVALID_JNI_VERSION (0) and every accessor    *)
(* panics.                                                                 *)
C7_OnLoadStatus ==
  (out.op = "JNI_OnLoad" /\ ~out.escaped) =>
    /\ out.status \in { JNI_VERSION_1_8, INVALID_JNI_VERSION }
    /\ JNI_VERSION_1_8 # INVALID_JNI_VERSION
    /\ out.status = JNI_VERSION_1_8 <=> (INIT = "Done" /\ AllResolved /\ AllPopulated)
    /\ out.status = JNI_VERSION_1_8 => \A a \in Accessors : ~AccessorResult(a).panic
    /\ out.status = INVALID_JNI_VERSION <=> Failed
    /\ out.status = INVALID_JNI_VERSION => \A a \in Accessors : AccessorResult(a).panic

(* JNI_OnLoad ran cache_methods to the end and returned JNI_VERSION_1_8. *)
C7_Witness ==
  /\ out.op = "JNI_OnLoad" /\ out.ran
  /\ out.status = JNI_VERSION_1_8
  /\ INIT = "Done"

(* C8: every execution of JNI_OnLoad returns an integer status; no panic   *)
(* raised inside it, from get_env or from a lookup, leaves the function.   *)
C8_NoFaultEscapes ==
  /\ alive
  /\ \A t \in Threads : pc[t] # "unwound"
  /\ out.op = "JNI_OnLoad" =>
       /\ ~out.escaped
       /\ out.status \in { JNI_VERSION_1_8, INVALID_JNI_VERSION }

(* C9: a thread that called init_cache while cache_methods is running      *)
(* stays in call_once as long as the Once is in progress, and no call of   *)
(* init_cache completes normally unless the Once is done and the table     *)
(* fully populated.                                                        *)
C9_CallersWait ==
  /\ [][ INIT = "InProgress" =>
           /\ \A t \in Threads : pc[t] = "call_once" => pc'[t] = "call_once"
           /\ ~(out'.op \in { "init_cache", "JNI_OnLoad" } /\ ~out'.escaped /\ ~out'.ran) ]_vars
  /\ []( InitReturned => (INIT = "Done" /\ AllPopulated) )

(* A thread is inside init_cache while another one is in the middle of     *)
(* cache_methods, with part of the statics written.                        *)
C9_Witness ==
  /\ INIT = "InProgress"
  /\ \E t \in Threads : pc[t] = "call_once"
  /\ \E t \in Threads : pc[t] = "caching" /\ idx[t] > 1 /\ idx[t] <= NumSlots

(* C10: the Once only moves new -> in progress -> done, or from in         *)
(* progress to poisoned when the attempt fails; it is in progress at most  *)
(* once, never new again, at most one thread is inside cache_methods, and  *)
(* done is absorbing.                                                      *)
C10_GuardForwardOnly ==
  /\ [][ /\ INIT' # INIT =>
              << INIT, INIT' >> \in { << "New", "InProgress" >>,
                                      << "InProgress", "Done" >>,
                                      << "InProgress", "Poisoned" >> }
         /\ INIT = "Done" => INIT' = "Done"
         /\ INIT # "New" => INIT' # "New"
         /\ (INIT # "InProgress" /\ INIT' = "InProgress") => (entered = 0 /\ entered' = 1) ]_vars
  /\ []( /\ entered <= 1
         /\ entered = 0 <=> INIT = "New"
         /\ Cardinality(Caching) <= 1
         /\ Caching # {} <=> INIT = "InProgress" )

(* After a failed attempt a further call of init_cache was made: it        *)
(* panicked without running the closure again.                             *)
C10_Witness ==
  /\ INIT = "Poisoned" /\ entered = 1
  /\ out.op = "init_cache" /\ out.guard = "Poisoned"
  /\ out.panic /\ ~out.ran

(* C11 as claimed: a resolution failure ends the process; in no state has  *)
(* a lookup failed while the process lives on and completes operations of  *)
(* this module (JNI_OnLoad returning, later init_cache or accessor calls). *)
C11_FailureEndsProcess ==
  Failed =>
    ~( /\ alive
       /\ \/ out.op = "JNI_OnLoad" /\ ~out.escaped
          \/ out.op \in { "init_cache", "accessor" } /\ out.guard = "Poisoned" )

(* C11 as amended: a resolution failure ends the initialization, not the   *)
(* process.  The step in which the lookup fails leaves the process alive   *)
(* and the Once poisoned, and delivers the panic to the caller of          *)
(* init_cache or INVALID_JNI_VERSION to the host runtime; from then on the *)
(* Once stays poisoned and every operation that completes reports the      *)
(* failure: a panic from init_cache and the accessors, the value           *)
(* INVALID_JNI_VERSION from a JNI_OnLoad that obtained its JNIEnv.         *)
C11_FailedSteadyState ==
  /\ [][ (AllResolved /\ Failed') =>
           /\ alive'
           /\ INIT = "InProgress" /\ INIT' = "Poisoned"
           /\ out'.ran
           /\ \/ out'.op = "init_cache" /\ out'.panic
              \/ out'.op = "JNI_OnLoad" /\ ~out'.escaped /\ out'.status = INVALID_JNI_VERSION ]_vars
  /\ [][ Failed => (Failed' /\ INIT' = "Poisoned") ]_vars
  /\ []( (Failed /\ out.op = "init_cache") => out.panic )
  /\ []( (Failed /\ out.op = "accessor") => out.panic )
  /\ []( (Failed /\ out.op = "JNI_OnLoad" /\ ~out.escaped) => out.status = INVALID_JNI_VERSION )

(* After a failed initialization the process lives on: a further           *)
(* JNI_OnLoad found the Once poisoned and returned INVALID_JNI_VERSION.    *)
C11_Witness ==
  /\ Failed /\ alive /\ INIT = "Poisoned"
  /\ out.op = "JNI_OnLoad" /\ out.guard = "Poisoned"
  /\ ~out.escaped /\ out.status = INVALID_JNI_VERSION

(* The order of lookups C12 states: the member name of each method, then   *)
(* the name of each class.                                                 *)
LookupNames == <<
  "getClass", "getName", "getMessage", "getCause", "getErrorCode",
  "initialize", "deployArtifact", "isArtifactDeployed", "initiateAddingService",
  "initiateResumingService", "updateServiceStatus", "executeTransaction",
  "beforeTransactions", "afterTransactions", "afterCommit", "shutdown",
  "java/lang/Error", "java/lang/RuntimeException", "java/lang/IllegalArgumentException",
  "com/exonum/binding/core/service/ExecutionException",
  "com/exonum/binding/core/runtime/UnexpectedExecutionException" >>

Unresolvable(i) == jvm[CacheOrder[i].desc] \in { "absent", "noref" }
LookedUp(i) == lookups[CacheOrder[i].slot] > 0
FirstUnresolvable(i) == Unresolvable(i) /\ \A j \in 1..(i - 1) : ~Unresolvable(j)

(* C12: cache_methods looks the descriptors up in one fixed order, the     *)
(* five java.lang/ExecutionException methods, the 11 adapter methods, the  *)
(* five classes: in every state the descriptors looked up so far are an    *)
(* initial segment of that order, each looked up once.  The failure is     *)
(* raised at the first unresolvable descriptor of the order, and no        *)
(* descriptor from that one on is written, none after it looked up.        *)
C12_FixedOrder ==
  /\ Len(LookupNames) = NumSlots
  /\ \A i \in 1..NumSlots :
       CacheOrder[i].desc[IF CacheOrder[i].kind = "method" THEN 2 ELSE 1] = LookupNames[i]
  /\ \A i \in 1..NumSlots :
       /\ LookedUp(i) =>
            /\ lookups[CacheOrder[i].slot] = 1
            /\ \A j \in 1..(i - 1) :
                 LookedUp(j) /\ ~Unresolvable(j) /\ IsSome(slots[CacheOrder[j].slot])
       /\ IsSome(slots[CacheOrder[i].slot]) => (LookedUp(i) /\ ~Unresolvable(i))
       /\ FirstUnresolvable(i) =>
            /\ \A j \in i..NumSlots : slots[CacheOrder[j].slot] = None
            /\ \A j \in (i + 1)..NumSlots : ~LookedUp(j)
            /\ LookedUp(i) <=> INIT = "Poisoned"
  /\ \A t \in Threads : pc[t] = "caching" =>
       \A i \in 1..NumSlots : LookedUp(i) <=> i < idx[t]
  /\ INIT = "Poisoned" => \E i \in 1..NumSlots : FirstUnresolvable(i)

(* Two descriptors are unresolvable and neither is the first of the order: *)
(* the initialization failed at the earlier one, after the lookups before  *)
(* it, and the later one was never looked up.                              *)
C12_Witness ==
  /\ INIT = "Poisoned"
  /\ \E i, k \in 2..NumSlots :
       /\ i < k
       /\ FirstUnresolvable(i) /\ Unresolvable(k)
       /\ LookedUp(i) /\ LookedUp(i - 1) /\ ~LookedUp(k)

(* C13: once a lookup has failed no step issues a lookup or starts the     *)
(* closure again, no call of init_cache completes normally (a JNI_OnLoad   *)
(* that obtained its JNIEnv returns INVALID_JNI_VERSION), and the          *)
(* descriptor whose lookup failed has been looked up exactly once.         *)
C13_NoRetry ==
  /\ [][ Failed => (lookups' = lookups /\ jvm' = jvm /\ entered' = entered /\ slots' = slots) ]_vars
  /\ []( Failed =>
           /\ entered = 1
           /\ ~InitReturned
           /\ (out.op \in { "init_cache", "JNI_OnLoad" } /\ out.guard = "Poisoned") => ~out.ran
           /\ \A i \in 1..NumSlots : Unresolvable(i) => lookups[CacheOrder[i].slot] = 1 )

(* After a failed attempt init_cache was called again: it panicked on the  *)
(* poisoned Once without a lookup, the failed descriptor still looked up   *)
(* once.                                                                   *)
C13_Witness ==
  /\ Failed
  /\ out.op = "init_cache" /\ out.guard = "Poisoned" /\ out.panic /\ ~out.ran
  /\ \E i \in 1..NumSlots : Unresolvable(i) /\ lookups[CacheOrder[i].slot] = 1
  /\ \A s \in Slots : lookups[s] <= 1

(* The populated statics are the first k of cache_methods' assignments.     *)
PopulatedPrefix(k) ==
  \A i \in 1..NumSlots : IsSome(slots[CacheOrder[i].slot]) <=> i <= k

(* C14 as stated: whenever initialization has not completed, every one of  *)
(* the 21 slots is empty.                                                  *)
C14_EmptyUntilDone == INIT # "Done" => \A s \in Slots : slots[s] = None

(* C14 amended: the statics are all empty while the Once is New; while it  *)
(* is InProgress or Poisoned they are populated exactly up to the last     *)
(* assignment cache_methods made, in its order; no accessor hands out a    *)
(* static before the Once is Done; and the Once becomes Done only in a     *)
(* step that finds all 21 populated and writes none.                       *)
C14_PrefixUntilDone ==
  /\ []( /\ INIT = "New" => PopulatedPrefix(0)
         /\ INIT \in { "InProgress", "Poisoned" } => \E k \in 0..NumSlots : PopulatedPrefix(k)
         /\ \A t \in Caching : PopulatedPrefix(idx[t] - 1)
         /\ INIT = "Done" => PopulatedPrefix(NumSlots)
         /\ (out.op = "accessor" /\ out.guard # "Done") => (out.panic /\ out.handle = None) )
  /\ [][ (INIT # "Done" /\ INIT' = "Done") => (AllPopulated /\ slots' = slots) ]_vars

(* After a failed attempt left some statics populated and others empty, an *)
(* accessor of a populated static was called and panicked.                 *)
C14_Witness ==
  /\ INIT = "Poisoned"
  /\ \E k \in 1..(NumSlots - 1) : PopulatedPrefix(k)
  /\ out.op = "accessor" /\ out.filled /\ out.panic /\ out.handle = None

(* The step is one of thread t inside INIT.call_once: it takes the lock of *)
(* the new Once or runs cache_methods, and no other thread moves or is in  *)
(* cache_methods.                                                          *)
InitializerStep(t) ==
  /\ pc[t] = "caching" \/ (pc[t] = "call_once" /\ INIT = "New")
  /\ pc'[t] \in { "caching", "idle" }
  /\ \A u \in Threads \ { t } : pc[u] # "caching" /\ pc'[u] = pc[u] /\ idx'[u] = idx[u]

(* C15: a step that changes a static or the Once is a step of the one      *)
(* thread inside INIT.call_once; a static changes only from None to Some,  *)
(* with its first and only lookup; a step that completes an accessor call  *)
(* and any step taken once the Once is Done change no static and leave the *)
(* Once as it is.                                                          *)
C15_WrittenOnceByInitializer ==
  /\ [][ (slots' # slots \/ INIT' # INIT) => \E t \in Threads : InitializerStep(t) ]_vars
  /\ [][ \A s \in Slots :
           slots'[s] # slots[s] =>
             /\ slots[s] = None /\ IsSome(slots'[s])
             /\ lookups[s] = 0 /\ lookups'[s] = 1 ]_vars
  /\ []( \A s \in Slots : lookups[s] <= 1 /\ (IsSome(slots[s]) => lookups[s] = 1) )
  /\ [][ out'.op = "accessor" => (slots' = slots /\ INIT' = INIT) ]_vars
  /\ [][ INIT = "Done" => (slots' = slots /\ INIT' = INIT) ]_vars

(* After a successful initialization the accessor of a class reference was *)
(* called: it returned the reference, which is still in its static, and    *)
(* every static has been written once.                                     *)
C15_Witness ==
  /\ INIT = "Done"
  /\ out.op = "accessor" /\ out.key = "classes_refs_java_lang_error" /\ ~out.panic
  /\ out.handle = slots["JAVA_LANG_ERROR"] /\ IsSome(slots["JAVA_LANG_ERROR"])
  /\ \A s \in Slots : lookups[s] = 1

(* The Java member each accessor is published for: the method (owning      *)
(* class, name, signature) or the class.                                   *)
OwnDescriptor ==
  [ runtime_adapter_initialize_id |->
      << "com/exonum/binding/core/runtime/ServiceRuntimeAdapter", "initialize", "(J)V" >>,
    runtime_adapter_deploy_artifact_id |->
      << "com/exonum/binding/core/runtime/ServiceRuntimeAdapter", "deployArtifact", "([B[B)V" >>,
    runtime_adapter_is_artifact_deployed_id |->
      << "com/exonum/binding/core/runtime/ServiceRuntimeAdapter", "isArtifactDeployed", "([B)Z" >>,
    runtime_adapter_initiate_adding_service_id |->
      << "com/exonum/binding/core/runtime/ServiceRuntimeAdapter", "initiateAddingService", "(J[B[B)V" >>,
    runtime_adapter_initiate_resuming_service_id |->
      << "com/exonum/binding/core/runtime/ServiceRuntimeAdapter", "initiateResumingService", "(J[B[B)V" >>,
    runtime_adapter_update_service_status_id |->
      << "com/exonum/binding/core/runtime/ServiceRuntimeAdapter", "updateServiceStatus", "([B[B)V" >>,
    runtime_adapter_execute_tx_id |->
      << "com/exonum/binding/core/runtime/ServiceRuntimeAdapter", "executeTransaction",
         "(ILjava/lang/String;I[BJI[B[B)V" >>,
    runtime_adapter_before_transactions_id |->
      << "com/exonum/binding/core/runtime/ServiceRuntimeAdapter", "beforeTransactions", "(IJ)V" >>,
    runtime_adapter_after_transactions_id |->
      << "com/exonum/binding/core/runtime/ServiceRuntimeAdapter", "afterTransactions", "(IJ)V" >>,
    runtime_adapter_after_commit_id |->
      << "com/exonum/binding/core/runtime/ServiceRuntimeAdapter", "afterCommit", "(JIJ)V" >>,
    runtime_adapter_shutdown_id |->
      << "com/exonum/binding/core/runtime/ServiceRuntimeAdapter", "shutdown", "()V" >>,
    object_get_class_id |-> << "java/lang/Object", "getClass", "()Ljava/lang/Class;" >>,
    class_get_name_id |-> << "java/lang/Class", "getName", "()Ljava/lang/String;" >>,
    throwable_get_message_id |-> << "java/lang/Throwable", "getMessage", "()Ljava/lang/String;" >>,
    throwable_get_cause_id |-> << "java/lang/Throwable", "getCause", "()Ljava/lang/Throwable;" >>,
    execution_exception_get_error_code_id |->
      << "com/exonum/binding/core/service/ExecutionException", "getErrorCode", "()B" >>,
    classes_refs_java_lang_error |-> << "java/lang/Error" >>,
    classes_refs_java_lang_runtime_exception |-> << "java/lang/RuntimeException" >>,
    classes_refs_java_lang_illegal_argument_exception |-> << "java/lang/IllegalArgumentException" >>,
    classes_refs_execution_exception |-> << "com/exonum/binding/core/service/ExecutionException" >>,
    classes_refs_unexpected_execution_exception |->
      << "com/exonum/binding/core/runtime/UnexpectedExecutionException" >> ]

(* C16: after a successful initialization every accessor returns the       *)
(* handle the host runtime gave for the accessor's own descriptor, which   *)
(* was looked up once and resolved; no two accessors return the same       *)
(* handle; and a completed accessor call returned that handle.             *)
C16_OwnHandle ==
  /\ DOMAIN OwnDescriptor = Accessors
  /\ INIT = "Done" =>
       /\ \A a \in Accessors :
            /\ AccessorResult(a) = [panic |-> FALSE, handle |-> Some(OwnDescriptor[a])]
            /\ jvm[OwnDescriptor[a]] = "ok"
            /\ lookups[AccessorSlot[a]] = 1
       /\ \A a, b \in Accessors :
            a # b => AccessorResult(a).handle # AccessorResult(b).handle
  /\ (out.op = "accessor" /\ out.guard = "Done") =>
       (~out.panic /\ out.handle = Some(OwnDescriptor[out.key]))

(* After a successful initialization initiate_resuming_service_id was      *)
(* called and returned the id of initiateResumingService, not the id of    *)
(* initiateAddingService, which has the same signature.                    *)
C16_Witness ==
  /\ INIT = "Done"
  /\ out.op = "accessor" /\ out.key = "runtime_adapter_initiate_resuming_service_id"
  /\ out.handle = Some(<< SERVICE_RUNTIME_ADAPTER_CLASS, "initiateResumingService", "(J[B[B)V" >>)
  /\ out.handle # AccessorResult("runtime_adapter_initiate_adding_service_id").handle

(* Thread t is inside a call of init_cache. *)
InInitCache(t) == pc[t] \in { "call_once", "caching" }

(* C17: under fair scheduling every call of init_cache eventually ends,    *)
(* returning or panicking, the calls parked on an initializer whose lookup *)
(* then failed included; and once init_cache has been called the Once      *)
(* eventually becomes Done unless a lookup fails.                          *)
C17_EveryCallFinishes ==
  /\ \A t \in Threads : InInitCache(t) ~> (pc[t] = "idle")
  /\ (\E t \in Threads : InInitCache(t)) ~> (INIT = "Done" \/ Failed)

(* The same with the end of the process counted as an end: the calls that  *)
(* never end are those cut short by the abort of a JNI_OnLoad whose        *)
(* get_env failed.                                                         *)
EveryCallFinishesOrAborted ==
  /\ \A t \in Threads : InInitCache(t) ~> (pc[t] = "idle" \/ ~alive)
  /\ (\E t \in Threads : InInitCache(t)) ~> (INIT = "Done" \/ Failed \/ ~alive)

=============================================================================
